---------------------------- MODULE Spec2Model ----------------------------
(***************************************************************************)
(* Model of the banking console of desafio-classes-python.py.              *)
(*                                                                         *)
(* The program is one thread: main() reads a menu option and runs one      *)
(* handler to completion.  Each action below is one iteration of that      *)
(* loop.  The state is the two lists of main() (clientes, contas), whether  *)
(* the loop is still running (executando), what the last iteration read    *)
(* from stdin (entrada) and the last message it wrote to stdout (saida).   *)
(*                                                                         *)
(* Objects.  Every Conta object is appended to main's `contas` list when   *)
(* it is created and is never removed, so a Conta object is identified by  *)
(* its position in `contas`; Cliente.contas holds such positions, and      *)
(* Conta._cliente holds the position of the owner in `clientes`.  0 stands *)
(* for None.  criar_conta only ever builds ContaCorrente objects, so       *)
(* conta.sacar always dispatches to ContaCorrente.sacar.                   *)
(*                                                                         *)
(* Amounts.  Amounts are Python floats obtained with float(input()).  A    *)
(* float is modelled as [nan, v]: either NaN, or the integer v (binary64   *)
(* arithmetic is exact on the small integers used here).  float() accepts  *)
(* the text "nan"; comparisons with NaN are all false and arithmetic with  *)
(* NaN gives NaN, as in IEEE-754.                                          *)
(*                                                                         *)
(* The "data" field of a history record (a wall-clock string) is read by   *)
(* no operation other than the statement printer and is left out.          *)
(***************************************************************************)
EXTENDS Integers, Sequences, FiniteSets

VARIABLES clientes, contas, executando, entrada, saida

vars == <<clientes, contas, executando, entrada, saida>>

---------------------------------------------------------------------------
(* Bounds of the model *)

\* accounts the registry may hold
MaxContas == 2
\* "Deposito" records over all accounts
MaxDepositos == 1

(* Program constants *)

\* ContaCorrente.__init__: limite: float = 500.0
LimitePadrao == 500
\* ContaCorrente.__init__: limite_saques: int = 3
LimiteSaquesPadrao == 3

(* Inputs typed at the prompts.  Spec explores one customer with many     *)
(* amounts; SpecCadastro explores several customers with few amounts.     *)

CPFs == {"111", "222"}
Nomes == {"Ana", "Bia"}
DatasNascimento == {"01-01-2000"}
Enderecos == {"Rua A, 1"}
\* texts typed at the prompt "Informe o valor do deposito"
TextosDeposito == {"-5", "0", "1000", "nan", "abc"}
\* texts typed at the prompt "Informe o valor do saque"
TextosSaque == {"-5", "0", "1", "200", "500", "600", "nan", "abc"}

---------------------------------------------------------------------------
(* Python floats *)

Num(n) == [nan |-> FALSE, v |-> n]
NaN == [nan |-> TRUE, v |-> 0]

\* a <= b
FLe(a, b) == ~a.nan /\ ~b.nan /\ a.v <= b.v
\* a > b
FGt(a, b) == ~a.nan /\ ~b.nan /\ a.v > b.v
\* a < b
FLt(a, b) == ~a.nan /\ ~b.nan /\ a.v < b.v
\* a >= b
FGe(a, b) == ~a.nan /\ ~b.nan /\ a.v >= b.v
\* a == b
FEq(a, b) == ~a.nan /\ ~b.nan /\ a.v = b.v
\* a + b
FAdd(a, b) == IF a.nan \/ b.nan THEN NaN ELSE Num(a.v + b.v)
\* a - b
FSub(a, b) == IF a.nan \/ b.nan THEN NaN ELSE Num(a.v - b.v)

\* float(input(...)): ok = FALSE stands for ValueError
float(txt) ==
    CASE txt = "-5"   -> [ok |-> TRUE,  val |-> Num(-5)]
      [] txt = "0"    -> [ok |-> TRUE,  val |-> Num(0)]
      [] txt = "1"    -> [ok |-> TRUE,  val |-> Num(1)]
      [] txt = "200"  -> [ok |-> TRUE,  val |-> Num(200)]
      [] txt = "500"  -> [ok |-> TRUE,  val |-> Num(500)]
      [] txt = "600"  -> [ok |-> TRUE,  val |-> Num(600)]
      [] txt = "1000" -> [ok |-> TRUE,  val |-> Num(1000)]
      [] txt = "nan"  -> [ok |-> TRUE,  val |-> NaN]
      [] OTHER        -> [ok |-> FALSE, val |-> NaN]

---------------------------------------------------------------------------
(* Messages printed to stdout *)

MsgValorInvalido == "Operacao falhou! O valor informado e invalido."
MsgSemSaldo == "Operacao falhou! Voce nao tem saldo suficiente."
MsgSaqueOk == "Saque realizado com sucesso!"
MsgDepositoOk == "Deposito realizado com sucesso!"
MsgExcedeLimite == "Operacao falhou! O valor do saque excede o limite."
MsgMaxSaques == "Operacao falhou! Numero maximo de saques excedido."
MsgSemConta == "Cliente nao possui conta!"
MsgClienteNaoEncontrado == "Cliente nao encontrado!"
MsgEntradaInvalida == "Valor invalido!"
MsgExtrato == "EXTRATO"
MsgJaExiste == "Ja existe cliente com esse CPF!"
MsgClienteCriado == "Cliente criado com sucesso!"
MsgContaNaoCriada == "Cliente nao encontrado, fluxo de criacao de conta encerrado!"
MsgContaCriada == "Conta criada com sucesso!"
MsgLista == "Agencia / C/C / Titular"
MsgSair == "Obrigado por utilizar nosso sistema bancario!"
MsgOpcaoInvalida == "Operacao invalida, por favor selecione novamente a operacao desejada."

---------------------------------------------------------------------------
(* Transacao, Historico *)

Saque(valor) == [tipo |-> "Saque", valor |-> valor]
Deposito(valor) == [tipo |-> "Deposito", valor |-> valor]

\* adicionar_transacao with insert(0, ...) written for append(...)
adicionar_transacao_no_inicio(transacoes, transacao) ==
    <<[tipo |-> transacao.tipo, valor |-> transacao.valor]>> \o transacoes

\* Historico.adicionar_transacao
adicionar_transacao(transacoes, transacao) ==
    Append(transacoes, [tipo |-> transacao.tipo, valor |-> transacao.valor])

---------------------------------------------------------------------------
(* Conta, ContaCorrente *)

\* Conta.__init__ / ContaCorrente.__init__ with the default limits
nova_conta(cliente, numero) ==
    [saldo |-> Num(0), numero |-> numero, agencia |-> "0001",
     cliente |-> cliente, historico |-> <<>>,
     limite |-> Num(LimitePadrao), limite_saques |-> LimiteSaquesPadrao]

\* Conta.sacar with "valor >= self._saldo" written for "valor > self._saldo"
Conta_sacar_recusa_saldo_exato(conta, valor) ==
    IF FLe(valor, Num(0))
    THEN [ok |-> FALSE, msg |-> MsgValorInvalido, conta |-> conta]
    ELSE IF FGe(valor, conta.saldo)
    THEN [ok |-> FALSE, msg |-> MsgSemSaldo, conta |-> conta]
    ELSE [ok |-> TRUE, msg |-> MsgSaqueOk,
          conta |-> [conta EXCEPT !.saldo = FSub(@, valor)]]

\* Conta.sacar
Conta_sacar(conta, valor) ==
    IF FLe(valor, Num(0))
    THEN [ok |-> FALSE, msg |-> MsgValorInvalido, conta |-> conta]
    ELSE IF FGt(valor, conta.saldo)
    THEN [ok |-> FALSE, msg |-> MsgSemSaldo, conta |-> conta]
    ELSE [ok |-> TRUE, msg |-> MsgSaqueOk,
          conta |-> [conta EXCEPT !.saldo = FSub(@, valor)]]

\* Conta.depositar with "valor < 0" written for "valor <= 0"
Conta_depositar_aceita_zero(conta, valor) ==
    IF FLt(valor, Num(0))
    THEN [ok |-> FALSE, msg |-> MsgValorInvalido, conta |-> conta]
    ELSE [ok |-> TRUE, msg |-> MsgDepositoOk,
          conta |-> [conta EXCEPT !.saldo = FAdd(@, valor)]]

\* Conta.depositar
Conta_depositar(conta, valor) ==
    IF FLe(valor, Num(0))
    THEN [ok |-> FALSE, msg |-> MsgValorInvalido, conta |-> conta]
    ELSE [ok |-> TRUE, msg |-> MsgDepositoOk,
          conta |-> [conta EXCEPT !.saldo = FAdd(@, valor)]]

\* the count of "Saque" records of a history
saques_realizados(transacoes) ==
    Cardinality({i \in DOMAIN transacoes : transacoes[i].tipo = "Saque"})

\* ContaCorrente.sacar with "saques_realizados > self._limite_saques"
\* written for ">="
ContaCorrente_sacar_um_saque_a_mais(conta, valor) ==
    IF FGt(valor, conta.limite)
    THEN [ok |-> FALSE, msg |-> MsgExcedeLimite, conta |-> conta]
    ELSE IF saques_realizados(conta.historico) > conta.limite_saques
    THEN [ok |-> FALSE, msg |-> MsgMaxSaques, conta |-> conta]
    ELSE Conta_sacar(conta, valor)

\* ContaCorrente.sacar with "valor >= self._limite" written for ">"
ContaCorrente_sacar_recusa_o_limite(conta, valor) ==
    IF FGe(valor, conta.limite)
    THEN [ok |-> FALSE, msg |-> MsgExcedeLimite, conta |-> conta]
    ELSE IF saques_realizados(conta.historico) >= conta.limite_saques
    THEN [ok |-> FALSE, msg |-> MsgMaxSaques, conta |-> conta]
    ELSE Conta_sacar(conta, valor)

\* ContaCorrente.sacar
ContaCorrente_sacar(conta, valor) ==
    IF FGt(valor, conta.limite)
    THEN [ok |-> FALSE, msg |-> MsgExcedeLimite, conta |-> conta]
    ELSE IF saques_realizados(conta.historico) >= conta.limite_saques
    THEN [ok |-> FALSE, msg |-> MsgMaxSaques, conta |-> conta]
    ELSE Conta_sacar(conta, valor)

\* Saque.registrar without the test of what conta.sacar returned
Saque_registrar_sempre(transacao, conta) ==
    LET r == ContaCorrente_sacar(conta, transacao.valor)
    IN  [r EXCEPT !.conta.historico = adicionar_transacao(@, transacao)]

\* Saque.registrar
Saque_registrar(transacao, conta) ==
    LET r == ContaCorrente_sacar(conta, transacao.valor)
    IN  IF r.ok
        THEN [r EXCEPT !.conta.historico = adicionar_transacao(@, transacao)]
        ELSE r

\* Deposito.registrar
Deposito_registrar(transacao, conta) ==
    LET r == Conta_depositar(conta, transacao.valor)
    IN  IF r.ok
        THEN [r EXCEPT !.conta.historico = adicionar_transacao(@, transacao)]
        ELSE r

\* Cliente.realizar_transacao: transacao.registrar(conta)
realizar_transacao(conta, transacao) ==
    IF transacao.tipo = "Saque"
    THEN Saque_registrar(transacao, conta)
    ELSE Deposito_registrar(transacao, conta)

---------------------------------------------------------------------------
(* Lookups *)

\* filtrar_cliente: the first client with that CPF, 0 for None
filtrar_cliente(cpf, cls) ==
    LET achados == {i \in DOMAIN cls : cls[i].cpf = cpf}
    IN  IF achados = {} THEN 0
        ELSE CHOOSE i \in achados : \A j \in achados : i <= j

\* recuperar_conta_cliente: the client's first account, 0 for None
recuperar_conta_cliente(cliente) ==
    IF cliente.contas = <<>> THEN 0 ELSE cliente.contas[1]

\* the number of "Deposito" records over all accounts
RECURSIVE TotalDepositos(_)
TotalDepositos(cs) ==
    IF cs = <<>> THEN 0
    ELSE Cardinality({i \in DOMAIN cs[Len(cs)].historico :
                        cs[Len(cs)].historico[i].tipo = "Deposito"})
         + TotalDepositos(SubSeq(cs, 1, Len(cs) - 1))

---------------------------------------------------------------------------
(* The menu handlers *)

\* what one iteration reads: the option, then the answers to the prompts the
\* handler reaches ("" for a prompt it does not reach)
lido(opcao, cpf, valor, nome, data_nascimento, endereco) ==
    [opcao |-> opcao, cpf |-> cpf, valor |-> valor, nome |-> nome,
     data_nascimento |-> data_nascimento, endereco |-> endereco]

Init ==
    /\ clientes = <<>>
    /\ contas = <<>>
    /\ executando = TRUE
    /\ entrada = lido("", "", "", "", "", "")
    /\ saida = ""

\* the body shared by depositar(clientes) and sacar(clientes)
movimentar(opcao, cpf, txt) ==
    LET cliente == filtrar_cliente(cpf, clientes)
        valor == float(txt)
        transacao == IF opcao = "d" THEN Deposito(valor.val) ELSE Saque(valor.val)
        conta == recuperar_conta_cliente(clientes[cliente])
        r == realizar_transacao(contas[conta], transacao)
    IN  IF cliente = 0
        THEN /\ entrada' = lido(opcao, cpf, "", "", "", "")
             /\ saida' = MsgClienteNaoEncontrado
             /\ UNCHANGED <<clientes, contas>>
        ELSE /\ entrada' = lido(opcao, cpf, txt, "", "", "")
             /\ IF ~valor.ok
                THEN saida' = MsgEntradaInvalida /\ UNCHANGED <<clientes, contas>>
                ELSE IF conta = 0
                THEN saida' = MsgSemConta /\ UNCHANGED <<clientes, contas>>
                ELSE /\ saida' = r.msg
                     /\ contas' = [contas EXCEPT ![conta] = r.conta]
                     /\ TotalDepositos(contas') <= MaxDepositos
                     /\ UNCHANGED clientes

\* option "d"
depositar(cpf, txt) ==
    /\ executando
    /\ movimentar("d", cpf, txt)
    /\ UNCHANGED executando

\* option "s"
sacar(cpf, txt) ==
    /\ executando
    /\ movimentar("s", cpf, txt)
    /\ UNCHANGED executando

\* option "e"
exibir_extrato(cpf) ==
    LET cliente == filtrar_cliente(cpf, clientes)
        conta == recuperar_conta_cliente(clientes[cliente])
    IN  /\ executando
        /\ entrada' = lido("e", cpf, "", "", "", "")
        /\ saida' = IF cliente = 0 THEN MsgClienteNaoEncontrado
                    ELSE IF conta = 0 THEN MsgSemConta
                    ELSE MsgExtrato
        /\ UNCHANGED <<clientes, contas, executando>>

\* criar_cliente without the test of filtrar_cliente's result
criar_cliente_sem_filtro(cpf, nome, data_nascimento, endereco) ==
    /\ executando
    /\ entrada' = lido("nu", cpf, "", nome, data_nascimento, endereco)
    /\ clientes' = Append(clientes,
          [cpf |-> cpf, nome |-> nome,
           data_nascimento |-> data_nascimento,
           endereco |-> endereco, contas |-> <<>>])
    /\ saida' = MsgClienteCriado
    /\ UNCHANGED <<contas, executando>>

\* option "nu"
criar_cliente(cpf, nome, data_nascimento, endereco) ==
    /\ executando
    /\ IF filtrar_cliente(cpf, clientes) # 0
       THEN /\ entrada' = lido("nu", cpf, "", "", "", "")
            /\ saida' = MsgJaExiste
            /\ UNCHANGED clientes
       ELSE /\ entrada' = lido("nu", cpf, "", nome, data_nascimento, endereco)
            /\ clientes' = Append(clientes,
                  [cpf |-> cpf, nome |-> nome,
                   data_nascimento |-> data_nascimento,
                   endereco |-> endereco, contas |-> <<>>])
            /\ saida' = MsgClienteCriado
    /\ UNCHANGED <<contas, executando>>

\* numero_conta without the "+ 1"
numero_conta_sem_incremento == Len(contas)

\* main, option "nc": numero_conta = len(contas) + 1
numero_conta == Len(contas) + 1

\* option "nc"
criar_conta(cpf) ==
    LET cliente == filtrar_cliente(cpf, clientes)
    IN  /\ executando
        /\ entrada' = lido("nc", cpf, "", "", "", "")
        /\ IF cliente = 0
           THEN saida' = MsgContaNaoCriada /\ UNCHANGED <<clientes, contas>>
           ELSE /\ Len(contas) < MaxContas
                /\ contas' = Append(contas, nova_conta(cliente, numero_conta))
                /\ clientes' = [clientes EXCEPT
                                  ![cliente].contas = Append(@, Len(contas'))]
                /\ saida' = MsgContaCriada
        /\ UNCHANGED executando

\* option "lc": nothing is printed when there is no account
listar_contas ==
    /\ executando
    /\ entrada' = lido("lc", "", "", "", "", "")
    /\ saida' = IF contas = <<>> THEN saida ELSE MsgLista
    /\ UNCHANGED <<clientes, contas, executando>>

\* option "q"
sair ==
    /\ executando
    /\ executando' = FALSE
    /\ entrada' = lido("q", "", "", "", "", "")
    /\ saida' = MsgSair
    /\ UNCHANGED <<clientes, contas>>

\* any other option
opcao_invalida ==
    /\ executando
    /\ entrada' = lido("x", "", "", "", "", "")
    /\ saida' = MsgOpcaoInvalida
    /\ UNCHANGED <<clientes, contas, executando>>

Next ==
    \/ \E txt \in TextosDeposito : depositar("111", txt)
    \/ \E txt \in TextosSaque : sacar("111", txt)
    \/ exibir_extrato("111")
    \/ criar_cliente("111", "Ana", "01-01-2000", "Rua A, 1")
    \/ criar_conta("111")
    \/ listar_contas
    \/ sair
    \/ opcao_invalida

Spec == Init /\ [][Next]_vars

NextCadastro ==
    \/ \E cpf \in CPFs : depositar(cpf, "1000")
    \/ \E cpf \in CPFs : sacar(cpf, "200")
    \/ \E cpf \in CPFs : exibir_extrato(cpf)
    \/ \E cpf \in CPFs, nome \in Nomes, dn \in DatasNascimento, en \in Enderecos :
          criar_cliente(cpf, nome, dn, en)
    \/ \E cpf \in CPFs : criar_conta(cpf)
    \/ listar_contas
    \/ sair
    \/ opcao_invalida

SpecCadastro == Init /\ [][NextCadastro]_vars

---------------------------------------------------------------------------
(* Vocabulary of the properties.  In a step, entrada' is what the step's   *)
(* command read and saida' what it printed; the unprimed variables are the *)
(* state the command found.                                                *)

\* the account a "d"/"s"/"e" command of that CPF acts on, 0 when there is none
Alvo(cpf) ==
    LET cliente == filtrar_cliente(cpf, clientes)
    IN  IF cliente = 0 THEN 0 ELSE recuperar_conta_cliente(clientes[cliente])

\* the step is a command of that option that reaches Transacao.registrar:
\* client found, amount parsed, account found
Registra(opcao) ==
    /\ entrada'.opcao = opcao
    /\ float(entrada'.valor).ok
    /\ Alvo(entrada'.cpf) # 0

\* the amount of the step's transaction
ValorLido == float(entrada'.valor).val

\* the account the step's transaction is applied to, before and after
ContaAntes == contas[Alvo(entrada'.cpf)]
ContaDepois == contas'[Alvo(entrada'.cpf)]

\* no account other than the step's target changes
OutrasIntactas ==
    \A j \in DOMAIN contas \ {Alvo(entrada'.cpf)} : contas'[j] = contas[j]

\* the sum of the amounts of the records of one kind
RECURSIVE Soma(_, _)
Soma(transacoes, tipo) ==
    IF transacoes = <<>> THEN Num(0)
    ELSE LET n == Len(transacoes)
             resto == Soma(SubSeq(transacoes, 1, n - 1), tipo)
         IN  IF transacoes[n].tipo = tipo
             THEN FAdd(resto, transacoes[n].valor)
             ELSE resto

\* h is a prefix of g
Prefixo(h, g) == Len(h) <= Len(g) /\ SubSeq(g, 1, Len(h)) = h

---------------------------------------------------------------------------
(* C1 *)

SaldoNaoNegativo ==
    \A k \in DOMAIN contas : FGe(contas[k].saldo, Num(0))

SaldoSoMudaEmTransacao ==
    \A k \in DOMAIN contas :
        contas'[k].saldo # contas[k].saldo =>
            /\ Registra("d") \/ Registra("s")
            /\ Alvo(entrada'.cpf) = k
            /\ saida' \in {MsgDepositoOk, MsgSaqueOk}

\* C1: in every reachable state the balance of every account is >= 0, and
\* a balance changes only in a step of Conta.depositar or
\* Conta.sacar / ContaCorrente.sacar.
C1_SaldoNuncaNegativo ==
    /\ []SaldoNaoNegativo
    /\ [][SaldoSoMudaEmTransacao]_vars

---------------------------------------------------------------------------
(* C2 *)

\* C2: a Deposito.registrar / Saque.registrar call whose depositar / sacar
\* reports success appends exactly one record, of the transaction's kind and
\* amount, to the account's history; one that reports failure leaves the
\* history as it was.  No other account is touched.
C2_RegistroSoNoSucesso ==
    [][/\ Registra("d") =>
            /\ ContaDepois.historico =
                 IF Conta_depositar(ContaAntes, ValorLido).ok
                 THEN ContaAntes.historico
                        \o <<[tipo |-> "Deposito", valor |-> ValorLido]>>
                 ELSE ContaAntes.historico
            /\ OutrasIntactas
       /\ Registra("s") =>
            /\ ContaDepois.historico =
                 IF ContaCorrente_sacar(ContaAntes, ValorLido).ok
                 THEN ContaAntes.historico
                        \o <<[tipo |-> "Saque", valor |-> ValorLido]>>
                 ELSE ContaAntes.historico
            /\ OutrasIntactas
    ]_vars

\* a withdrawal of 200 was recorded after a deposit of 1000
C2_Witness ==
    /\ entrada.opcao = "s" /\ entrada.valor = "200"
    /\ saida = MsgSaqueOk
    /\ \E k \in DOMAIN contas :
         contas[k].historico =
            << [tipo |-> "Deposito", valor |-> Num(1000)],
               [tipo |-> "Saque", valor |-> Num(200)] >>

---------------------------------------------------------------------------
(* C3 *)

\* the step is a withdrawal attempt on an account whose history holds
\* limite_saques (3) "Saque" records already
SaqueAposLimite ==
    /\ Registra("s")
    /\ saques_realizados(ContaAntes.historico) >= LimiteSaquesPadrao

\* C3 as stated: once the history holds 3 "Saque" records, every further
\* withdrawal attempt, whatever the amount, fails with the "max withdrawals"
\* message and leaves balance and history as they were.
C3_QuartoSaqueSempreMaxSaques ==
    [][SaqueAposLimite => saida' = MsgMaxSaques /\ contas' = contas]_vars

\* C3 amended: once the history holds 3 "Saque" records, every further
\* withdrawal attempt fails and leaves balance and history as they were; it
\* fails with the "max withdrawals" message when the amount does not exceed
\* the per-withdrawal limit, and with the "exceeds the limit" message when
\* it does (that test comes first).
C3_QuartoSaqueFalha ==
    [][SaqueAposLimite =>
         /\ contas' = contas
         /\ saida' = IF FGt(ValorLido, Num(LimitePadrao))
                     THEN MsgExcedeLimite
                     ELSE MsgMaxSaques
    ]_vars

\* deposit 1000, withdraw 200 three times, then a refused withdrawal of 1
C3_Witness ==
    /\ entrada.opcao = "s" /\ entrada.valor = "1"
    /\ saida = MsgMaxSaques
    /\ \E k \in DOMAIN contas :
         /\ contas[k].saldo = Num(400)
         /\ Len(contas[k].historico) = 4
         /\ saques_realizados(contas[k].historico) = 3

---------------------------------------------------------------------------
(* C4 *)

\* C4: a withdrawal of more than the per-withdrawal limit (500) fails with
\* the "exceeds the limit" message whatever the balance and the number of
\* earlier withdrawals, and leaves balance and history as they were; a
\* withdrawal of exactly the limit is not refused for that reason.
C4_AcimaDoLimiteFalha ==
    [][Registra("s") =>
         /\ FGt(ValorLido, Num(LimitePadrao)) =>
               saida' = MsgExcedeLimite /\ contas' = contas
         /\ FEq(ValorLido, Num(LimitePadrao)) => saida' # MsgExcedeLimite
    ]_vars

\* a withdrawal of 600 refused on a balance of 1000
C4_Witness ==
    /\ entrada.opcao = "s" /\ entrada.valor = "600"
    /\ saida = MsgExcedeLimite
    /\ \E k \in DOMAIN contas :
         contas[k].saldo = Num(1000) /\ Len(contas[k].historico) = 1

---------------------------------------------------------------------------
(* C5 *)

\* C5: with an amount <= 0 (0 included), a deposit fails with the "invalid
\* amount" message, and so does a withdrawal that reaches Conta.sacar (one
\* that ContaCorrente.sacar refuses earlier fails with that refusal's
\* message); balance and history are as they were.
C5_ValorNaoPositivoFalha ==
    [][/\ (Registra("d") /\ FLe(ValorLido, Num(0))) =>
            saida' = MsgValorInvalido /\ contas' = contas
       /\ (Registra("s") /\ FLe(ValorLido, Num(0))) =>
            /\ contas' = contas
            /\ saida' =
                 IF saques_realizados(ContaAntes.historico) >= LimiteSaquesPadrao
                 THEN MsgMaxSaques
                 ELSE MsgValorInvalido
    ]_vars

\* a deposit of -5 was refused on an account that has a history
C5_Witness ==
    /\ entrada.opcao = "d" /\ entrada.valor = "-5"
    /\ saida = MsgValorInvalido
    /\ \E k \in DOMAIN contas : Len(contas[k].historico) = 2

---------------------------------------------------------------------------
(* C6 *)

\* the withdrawal passes the two tests of ContaCorrente.sacar and reaches
\* Conta.sacar
ChegaAoSacarBase ==
    /\ ~FGt(ValorLido, Num(LimitePadrao))
    /\ saques_realizados(ContaAntes.historico) < LimiteSaquesPadrao

\* C6: a withdrawal of more than the balance fails and leaves balance and
\* history as they were (with the "insufficient balance" message when it
\* reaches Conta.sacar); a withdrawal of exactly the balance that reaches
\* Conta.sacar with a positive amount succeeds and leaves a balance of 0.
C6_AcimaDoSaldoFalha ==
    [][Registra("s") =>
         /\ FGt(ValorLido, ContaAntes.saldo) =>
              /\ contas' = contas
              /\ saida' \in {MsgExcedeLimite, MsgMaxSaques, MsgSemSaldo}
              /\ ChegaAoSacarBase => saida' = MsgSemSaldo
         /\ ( /\ FEq(ValorLido, ContaAntes.saldo)
              /\ FGt(ValorLido, Num(0))
              /\ ChegaAoSacarBase ) =>
              /\ saida' = MsgSaqueOk
              /\ ContaDepois.saldo = Num(0)
    ]_vars

\* a withdrawal of 500 refused on a balance of 300
C6_Witness ==
    /\ entrada.opcao = "s" /\ entrada.valor = "500"
    /\ saida = MsgSemSaldo
    /\ \E k \in DOMAIN contas :
         contas[k].saldo = Num(300) /\ Len(contas[k].historico) = 3

---------------------------------------------------------------------------
(* C7 *)

\* C7: the k-th account of the registry has number k, so no two accounts
\* share a number, whatever "nc" commands failed in between.
C7_NumerosSequenciais ==
    /\ \A k \in DOMAIN contas : contas[k].numero = k
    /\ \A i, j \in DOMAIN contas : i # j => contas[i].numero # contas[j].numero

\* two accounts exist and the last "nc" failed for an unknown CPF
C7_Witness ==
    /\ Len(contas) = 2
    /\ entrada.opcao = "nc"
    /\ saida = MsgContaNaoCriada

---------------------------------------------------------------------------
(* C8 *)

CPFsDistintos ==
    \A i, j \in DOMAIN clientes : i # j => clientes[i].cpf # clientes[j].cpf

\* C8: "nu" with a CPF already in the list fails and leaves the customer list
\* (hence the existing customer's fields and accounts) as it was; no two
\* customers ever share a CPF.
C8_CpfDuplicadoRecusado ==
    /\ []CPFsDistintos
    /\ [][( /\ entrada'.opcao = "nu"
            /\ \E i \in DOMAIN clientes : clientes[i].cpf = entrada'.cpf )
          => /\ clientes' = clientes
             /\ contas' = contas
             /\ saida' = MsgJaExiste
       ]_vars

\* a duplicate registration was refused; the customer owns an account
C8_Witness ==
    /\ entrada.opcao = "nu"
    /\ saida = MsgJaExiste
    /\ \E i \in DOMAIN clientes :
         clientes[i].cpf = entrada.cpf /\ clientes[i].contas # <<>>

---------------------------------------------------------------------------
(* C9 *)

\* C9: in every step the history of every account is extended at its end or
\* left alone (never shortened, changed or reordered), and the record of a
\* successful transaction is the last one of the history right after it.
C9_HistoricoSoCresce ==
    [][/\ Len(contas') >= Len(contas)
       /\ \A k \in DOMAIN contas :
            Prefixo(contas[k].historico, contas'[k].historico)
       /\ ( /\ Registra("d") \/ Registra("s")
            /\ saida' \in {MsgDepositoOk, MsgSaqueOk} )
          => LET h == ContaDepois.historico
             IN  /\ Len(h) = Len(ContaAntes.historico) + 1
                 /\ h[Len(h)].valor = ValorLido
                 /\ h[Len(h)].tipo =
                      IF entrada'.opcao = "d" THEN "Deposito" ELSE "Saque"
    ]_vars

\* a history of three records in call order
C9_Witness ==
    \E k \in DOMAIN contas :
        contas[k].historico =
            << [tipo |-> "Deposito", valor |-> Num(1000)],
               [tipo |-> "Saque", valor |-> Num(500)],
               [tipo |-> "Saque", valor |-> Num(1)] >>

---------------------------------------------------------------------------
(* C10 *)

\* C10: in every reachable state the balance of every account equals the sum
\* of its "Deposito" amounts minus the sum of its "Saque" amounts, and the
\* number of "Saque" records is at most limite_saques.
C10_SaldoIgualAoHistorico ==
    \A k \in DOMAIN contas :
        /\ FEq(contas[k].saldo,
               FSub(Soma(contas[k].historico, "Deposito"),
                    Soma(contas[k].historico, "Saque")))
        /\ saques_realizados(contas[k].historico) <= contas[k].limite_saques

=============================================================================
